---- MODULE Spec2Model ----
(***************************************************************************)
(* Model of main.py: the outage-schedule bot.                              *)
(*                                                                         *)
(* A Python string is a sequence of atoms (TLA+ strings).  The atoms that  *)
(* matter to the code are kept apart: the delimiter ":" of callback data,  *)
(* the "T" of a raw date, the newline "\n" of a joined text, and the       *)
(* single characters of group identifiers and of formatted numbers.        *)
(* Literal message texts are written in Latin transliteration.             *)
(***************************************************************************)
EXTENDS Integers, Sequences, FiniteSets, TLC

VARIABLES
    pc,          \* position of the running callback handler
    handler,     \* which handler the dispatcher selected
    cbdata,      \* callback.data of the interaction being handled
    city_key,    \* local of cb_city_selected / cb_group_selected
    group_id,    \* local of cb_group_selected
    acked,       \* callback.answer() was called for this interaction
    gets,        \* GET requests issued by the current fetch_city_data call
    resp,        \* how the current fetch_city_data call ended
    data,        \* value returned by fetch_city_data
    displayed,   \* content of callback.message (text and inline keyboard)
    outcome,     \* what the handler sent: an edit, a new message, or nothing
    raised,      \* exception that left the handler, "none" if none
    editfail,    \* an edit_text of this run failed: content was unchanged
    kb_city,     \* get_groups_keyboard: argument city_key
    kb_groups,   \* get_groups_keyboard: argument groups_list
    kb_out,      \* get_groups_keyboard: returned inline_keyboard
    kb_pc,       \* get_groups_keyboard: "ready" or "done"
    fm_data,     \* parse_schedule: argument data
    fm_key,      \* parse_schedule: argument day_key
    fm_out,      \* parse_schedule: returned text or exception
    fm_pc        \* parse_schedule: "ready" or "done"

mainvars == <<pc, handler, cbdata, city_key, group_id, acked, gets, resp, data,
              displayed, outcome, raised, editfail>>
kbvars == <<kb_city, kb_groups, kb_out, kb_pc>>
fmvars == <<fm_data, fm_key, fm_out, fm_pc>>
vars == <<mainvars, kbvars, fmvars>>

----------------------------------------------------------------------------
(* Bounds of the model *)

\* longest groups_list handed to get_groups_keyboard
MaxGroups == 5
\* longest slot list of a day handed to parse_schedule
MaxSlots == 2

----------------------------------------------------------------------------
(* Python strings and values *)

Range(s) == {s[i] : i \in 1..Len(s)}

\* code point of the characters group identifiers are made of
Ord(c) ==
    CASE c = "." -> 46
      [] c = "0" -> 48
      [] c = "1" -> 49
      [] c = "2" -> 50
      [] c = ":" -> 58

\* str.__lt__: lexicographic by code point, a proper prefix is smaller
RECURSIVE StrLess(_, _)
StrLess(a, b) ==
    IF b = <<>> THEN FALSE
    ELSE IF a = <<>> THEN TRUE
    ELSE IF Head(a) = Head(b) THEN StrLess(Tail(a), Tail(b))
    ELSE Ord(Head(a)) < Ord(Head(b))

\* str.split(sep): the fields between the separators, at least one field
Split(s, sep) ==
    LET cuts == {0, Len(s) + 1} \cup {i \in 1..Len(s) : s[i] = sep}
        cut(k) == CHOOSE c \in cuts : Cardinality({x \in cuts : x < c}) = k
    IN  [k \in 1..(Cardinality(cuts) - 1) |-> SubSeq(s, cut(k - 1) + 1, cut(k) - 1)]

\* str.startswith(prefix)
StartsWith(s, prefix) ==
    /\ Len(s) >= Len(prefix)
    /\ SubSeq(s, 1, Len(prefix)) = prefix

\* "\n".join(lines)
RECURSIVE Join(_)
Join(lines) ==
    IF lines = <<>> THEN <<>>
    ELSE IF Len(lines) = 1 THEN lines[1]
    ELSE lines[1] \o <<"\n">> \o Join(Tail(lines))

Digit == <<"0", "1", "2", "3", "4", "5", "6", "7", "8", "9">>

\* str(n) of a non-negative int
RECURSIVE Str(_)
Str(n) == IF n < 10 THEN <<Digit[n + 1]>>
          ELSE Str(n \div 10) \o <<Digit[(n % 10) + 1]>>

\* format spec ":02" of a non-negative int: zero-padded to width 2, never cut
Pad2(n) == IF n < 10 THEN <<"0">> \o Str(n) ELSE Str(n)

\* result of a call: a value, or the exception it raised
Ok(v) == [exc |-> "none", val |-> v]
Raise(e) == [exc |-> e, val |-> <<>>]

----------------------------------------------------------------------------
(* Configuration *)

CITIES_CONFIG ==
    << [key |-> <<"kyiv">>,   name |-> <<"Kiev">>,  region |-> 25, dso |-> 902],
       [key |-> <<"dnipro">>, name |-> <<"Dnepr">>, region |-> 3,  dso |-> 301] >>

CityKeys == {CITIES_CONFIG[i].key : i \in 1..Len(CITIES_CONFIG)}

\* CITIES_CONFIG[city_key], for a key of the table
Config(k) == CITIES_CONFIG[CHOOSE i \in 1..Len(CITIES_CONFIG) : CITIES_CONFIG[i].key = k]

NoUrl == <<>>

\* mutation: an address is built for any key, known or not
get_api_url_anykey(k) ==
    LET c == IF k \in CityKeys THEN Config(k) ELSE CITIES_CONFIG[1]
    IN  <<"https://app.yasno.ua/api/blackout-service/public/shutdowns/regions/">>
        \o Str(c.region) \o <<"/dsos/">> \o Str(c.dso) \o <<"/planned-outages">>

get_api_url(k) ==
    IF k \notin CityKeys THEN NoUrl
    ELSE <<"https://app.yasno.ua/api/blackout-service/public/shutdowns/regions/">>
         \o Str(Config(k).region) \o <<"/dsos/">> \o Str(Config(k).dso)
         \o <<"/planned-outages">>

----------------------------------------------------------------------------
(* Schedule formatter *)

\* mutation: the hour wraps at the day boundary
format_time_wrap(minutes) ==
    LET h == (minutes \div 60) % 24
        m == minutes % 60
    IN  Pad2(h) \o <<":">> \o Pad2(m)

format_time(minutes) ==
    LET h == minutes \div 60
        m == minutes % 60
    IN  Pad2(h) \o <<":">> \o Pad2(m)

NO_DATA == <<"Net dannykh.">>
EMPTY_SCHEDULE == <<"Grafik pust (svet est ili net dannykh).">>
ICON_RED == "(red)"
ICON_GREEN == "(green)"
ICON_WHITE == "(white)"
TEXT_OUTAGE == "Otklyuchenie"
TEXT_POWER == "Svet est"

\* one pass of the loop body over a slot: the line, or the KeyError of slot[...]
SlotLine(slot) ==
    IF "start" \notin slot.has THEN Raise("KeyError")
    ELSE IF "end" \notin slot.has THEN Raise("KeyError")
    ELSE IF "type" \notin slot.has THEN Raise("KeyError")
    ELSE LET start_time == format_time(slot.start)
             end_time == format_time(slot.end)
             status_type == slot.type
             icon == IF status_type = "Definite" THEN ICON_RED
                     ELSE IF status_type = "NotPlanned" THEN ICON_GREEN
                     ELSE ICON_WHITE
             text == IF status_type = "Definite" THEN TEXT_OUTAGE
                     ELSE IF status_type = "NotPlanned" THEN TEXT_POWER
                     ELSE status_type
         IN  Ok(<<icon, " ">> \o start_time \o <<" ", "-", " ">> \o end_time
                \o <<" ", ":", " ", text>>)

\* the for loop: appends one line per slot, stops at the first exception
RECURSIVE SlotLoop(_, _)
SlotLoop(slots, result_lines) ==
    IF slots = <<>> THEN Ok(result_lines)
    ELSE LET r == SlotLine(Head(slots))
         IN  IF r.exc # "none" THEN Raise(r.exc)
             ELSE SlotLoop(Tail(slots), Append(result_lines, r.val))

\* a mapping with the keys in m.has: `key in m`
HasKey(m, k) == k \in m.has

parse_schedule(d, day_key) ==
    IF ~HasKey(d, day_key) THEN Ok(NO_DATA)
    ELSE LET day_data == IF day_key = "today" THEN d.today ELSE d.tomorrow
             slots == IF HasKey(day_data, "slots") THEN day_data.slots ELSE <<>>
         IN  IF slots = <<>> THEN Ok(EMPTY_SCHEDULE)
             ELSE LET date_raw == Split(IF HasKey(day_data, "date")
                                        THEN day_data.date ELSE <<>>, "T")[1]
                      header == <<"(cal) <b>Data: ">> \o date_raw \o <<"</b>">>
                      r == SlotLoop(slots, <<header>>)
                  IN  IF r.exc # "none" THEN Raise(r.exc)
                      ELSE Ok(Join(r.val))

----------------------------------------------------------------------------
(* Keyboards: a keyboard is a sequence of rows, a row a sequence of buttons *)

Button(text, callback_data) == [text |-> text, callback_data |-> callback_data]

\* buttons per row of the groups keyboard
RowSize == 3

RECURSIVE CityRows(_)
CityRows(cfg) ==
    IF cfg = <<>> THEN <<>>
    ELSE << <<Button(<<"(city) ">> \o Head(cfg).name, <<"city", ":">> \o Head(cfg).key)>> >>
         \o CityRows(Tail(cfg))

get_cities_keyboard == CityRows(CITIES_CONFIG)

\* sorted(): insertion into an ascending list, after the elements not greater
RECURSIVE Insert(_, _)
Insert(s, x) ==
    IF s = <<>> THEN <<x>>
    ELSE IF StrLess(x, Head(s)) THEN <<x>> \o s
    ELSE <<Head(s)>> \o Insert(Tail(s), x)

RECURSIVE SortedFrom(_, _)
SortedFrom(s, acc) ==
    IF s = <<>> THEN acc ELSE SortedFrom(Tail(s), Insert(acc, Head(s)))

Sorted(s) == SortedFrom(s, <<>>)

\* the loop over the groups: fills rows of RowSize, then the unfinished row
RECURSIVE GroupRows(_, _, _, _)
GroupRows(k, groups, keyboard, row) ==
    IF groups = <<>>
    THEN IF row # <<>> THEN Append(keyboard, row) ELSE keyboard
    ELSE LET row2 == Append(row, Button(<<"Gr. ">> \o Head(groups),
                                        <<"group", ":">> \o k \o <<":">> \o Head(groups)))
         IN  IF Len(row2) = RowSize
             THEN GroupRows(k, Tail(groups), Append(keyboard, row2), <<>>)
             ELSE GroupRows(k, Tail(groups), keyboard, row2)

BACK_TO_CITIES == Button(<<"(back) Nazad k gorodam">>, <<"start">>)

\* mutation: the groups are laid out in the order of the document
get_groups_keyboard_unsorted(k, groups_list) ==
    Append(GroupRows(k, groups_list, <<>>, <<>>), <<BACK_TO_CITIES>>)

get_groups_keyboard(k, groups_list) ==
    LET sorted_groups == Sorted(groups_list)
    IN  Append(GroupRows(k, sorted_groups, <<>>, <<>>), <<BACK_TO_CITIES>>)

get_refresh_keyboard(k, g) ==
    << <<Button(<<"(refresh) Obnovit">>, <<"group", ":">> \o k \o <<":">> \o g)>>,
       <<Button(<<"(back) Vybrat druguyu gruppu">>, <<"city", ":">> \o k)>> >>

----------------------------------------------------------------------------
(* JSON values of the outage API, as Python sees them after response.json() *)

\* a decoded document: a mapping (keys in document order, vals alongside),
\* a list (items in keys), a number, or null
Doc(kind, keys, vals, num) == [kind |-> kind, keys |-> keys, vals |-> vals, num |-> num]
None == Doc("null", <<>>, <<>>, 0)

Slot(has, start, end, type) == [has |-> has, start |-> start, end |-> end, type |-> type]
Day(has, date, slots) == [has |-> has, date |-> date, slots |-> slots]
Group(kind, has, updatedOn, today, tomorrow) ==
    [kind |-> kind, has |-> has, updatedOn |-> updatedOn, today |-> today,
     tomorrow |-> tomorrow]

SlotFields == {"start", "end", "type"}
DayFields == {"date", "slots"}

\* bool(x)
Truthy(d) ==
    CASE d.kind = "null" -> FALSE
      [] d.kind = "num"  -> d.num # 0
      [] OTHER           -> d.keys # <<>>

\* x in data
Contains(d, x) ==
    IF d.kind = "num" THEN Raise("TypeError") ELSE Ok(x \in Range(d.keys))

\* data[x]: the index of the value, x being a str
GetItem(d, x) ==
    IF d.kind = "dict"
    THEN IF x \in Range(d.keys)
         THEN Ok(d.vals[CHOOSE i \in 1..Len(d.keys) : d.keys[i] = x])
         ELSE Raise("KeyError")
    ELSE Raise("TypeError")

\* data.keys()
Keys(d) == IF d.kind = "dict" THEN Ok(d.keys) ELSE Raise("AttributeError")

----------------------------------------------------------------------------
(* Handlers: what each one sends, computed from its locals *)

GREETING == <<"Privet! Vyberi svoy gorod, chtoby uvidet grafik otklyucheniy:">>
ROOT_TEXT == <<"Vyberi gorod:">>
FETCH_ERROR == <<"(x) Ne udalos poluchit dannye ot Yasno. Poprobuyte pozzhe.">>
GROUP_ERROR == <<"(x) Oshibka polucheniya dannykh grafika.">>
UNKNOWN == <<"Neizvestno">>
NoGroupsText(name) == <<"(x) Dlya goroda ">> \o name \o <<" dannye o gruppakh ne naydeny.">>
CityText(name) ==
    <<"(pin) Gorod: <b>">> \o name \o <<"</b>.", "\n", "Vyberite vashu gruppu:">>

\* what a handler does at its end: edit the message, post a new one, or raise
Send(via, text, kb) == [exc |-> "none", via |-> via, text |-> text, kb |-> kb]
Fail(e) == [exc |-> e, via |-> "none", text |-> <<>>, kb |-> <<>>]
NoOutcome == Send("none", <<>>, <<>>)

Content(text, kb) == [text |-> text, kb |-> kb]

\* cb_city_selected after the fetch
cb_city_render(k, d) ==
    IF ~Truthy(d) THEN Send("edit", FETCH_ERROR, get_cities_keyboard)
    ELSE LET groups == Keys(d)
         IN  IF groups.exc # "none" THEN Fail(groups.exc)
             ELSE IF k \notin CityKeys THEN Fail("KeyError")
             ELSE IF groups.val = <<>>
             THEN Send("edit", NoGroupsText(Config(k).name), get_cities_keyboard)
             ELSE Send("edit", CityText(Config(k).name),
                       get_groups_keyboard(k, groups.val))

\* mutation: only the emptiness of the document is tested
GroupMissing_onlyempty(d, g) == Ok(~Truthy(d))

\* `not data or group_id not in data`
GroupMissing(d, g) ==
    IF ~Truthy(d) THEN Ok(TRUE)
    ELSE LET c == Contains(d, g)
         IN  IF c.exc # "none" THEN Raise(c.exc) ELSE Ok(~c.val)

\* the text of the schedule message
ScheduleMsg(k, g, group_data) ==
    IF k \notin CityKeys THEN Raise("KeyError")
    ELSE IF group_data.kind # "dict" THEN Raise("AttributeError")
    ELSE LET city_name == Config(k).name
             updated_on == IF HasKey(group_data, "updatedOn")
                           THEN group_data.updatedOn ELSE UNKNOWN
             today == parse_schedule(group_data, "today")
             tomorrow == parse_schedule(group_data, "tomorrow")
         IN  IF today.exc # "none" THEN Raise(today.exc)
             ELSE IF tomorrow.exc # "none" THEN Raise(tomorrow.exc)
             ELSE Ok(<<"(bulb) <b>">> \o city_name \o <<", Gruppa ">> \o g
                     \o <<"</b>", "\n", "<i>Obnovleno: ">> \o updated_on
                     \o <<"</i>", "\n", "\n", "(down) <b>SEGODNYA</b>:", "\n">>
                     \o today.val
                     \o <<"\n", "\n", "(down) <b>ZAVTRA</b>:", "\n">>
                     \o tomorrow.val)

\* cb_group_selected after the fetch; "edit_try" is the edit inside try/except
cb_group_render(k, g, d) ==
    LET missing == GroupMissing(d, g)
    IN  IF missing.exc # "none" THEN Fail(missing.exc)
        ELSE IF missing.val THEN Send("answer", GROUP_ERROR, <<>>)
        ELSE LET group_data == GetItem(d, g)
             IN  IF group_data.exc # "none" THEN Fail(group_data.exc)
                 ELSE LET msg == ScheduleMsg(k, g, group_data.val)
                      IN  IF msg.exc # "none" THEN Fail(msg.exc)
                          ELSE Send("edit_try", msg.val, get_refresh_keyboard(k, g))

----------------------------------------------------------------------------
(* Inputs the environment can supply *)

DATE == <<"2024-01-05", "T", "00:00:00">>
STAMP == <<"2024-01-05T10:00:00">>

G11 == <<"1", ".", "1">>
G12 == <<"1", ".", "2">>
G21 == <<"2", ".", "1">>
G22 == <<"2", ".", "2">>
G1c1 == <<"1", ":", "1">>

DayOk == Day(DayFields, DATE, <<Slot(SlotFields, 0, 90, "Definite"),
                                Slot(SlotFields, 90, 1440, "NotPlanned")>>)
DayOther == Day(DayFields, DATE, <<Slot(SlotFields, 600, 605, "Possible")>>)
DayEmpty == Day(DayFields, DATE, <<>>)
DayBadSlot == Day(DayFields, DATE, <<Slot({"start", "type"}, 0, 0, "Definite")>>)

GroupOk == Group("dict", {"updatedOn", "today", "tomorrow"}, STAMP, DayOk, DayEmpty)
GroupOther == Group("dict", {"today"}, <<>>, DayOther, DayEmpty)
GroupBadSlot == Group("dict", {"updatedOn", "today"}, STAMP, DayBadSlot, DayEmpty)
GroupNull == Group("null", {}, <<>>, DayEmpty, DayEmpty)

\* documents response.json() can decode to
Documents ==
    { Doc("dict", <<>>, <<>>, 0),
      Doc("dict", <<G12, G11>>, <<GroupOk, GroupOther>>, 0),
      Doc("dict", <<G21, G1c1, G12, G11>>, <<GroupOk, GroupOk, GroupOk, GroupOther>>, 0),
      Doc("dict", <<G11>>, <<GroupBadSlot>>, 0),
      Doc("dict", <<G11>>, <<GroupNull>>, 0),
      Doc("list", <<G11>>, <<>>, 0),
      Doc("num", <<>>, <<>>, 5),
      None }

\* callback data the transport can deliver
InboundIds ==
    { <<"start">>,
      <<"city", ":", "kyiv">>,
      <<"city", ":", "dnipro">>,
      <<"city", ":", "lviv">>,
      <<"city", ":">>,
      <<"city", ":", "kyiv", ":", "x">>,
      <<"group", ":", "kyiv", ":">> \o G11,
      <<"group", ":", "kyiv", ":">> \o G22,
      <<"group", ":", "dnipro", ":">> \o G12,
      <<"group", ":", "lviv", ":">> \o G11,
      <<"group", ":", "kyiv", ":">> \o G1c1,
      <<"group", ":", "kyiv">>,
      <<"group", ":">> }

\* the ways a GET can fail inside fetch_city_data
FetchFailures == {"exception", "status", "badjson"}

----------------------------------------------------------------------------
(* The handler machine *)

\* the dispatcher: the first registered callback handler whose filter matches
Route(d) ==
    IF d = <<"start">> THEN "cb_start"
    ELSE IF StartsWith(d, <<"city", ":">>) THEN "cb_city_selected"
    ELSE IF StartsWith(d, <<"group", ":">>) THEN "cb_group_selected"
    ELSE "unhandled"

Callbacks == {"cb_start", "cb_city_selected", "cb_group_selected"}

MainInit ==
    /\ pc = "idle"
    /\ handler = "cmd_start"
    /\ cbdata = <<>>
    /\ city_key = <<>>
    /\ group_id = <<>>
    /\ acked = FALSE
    /\ gets = 0
    /\ resp = "none"
    /\ data = None
    /\ displayed = Content(GREETING, get_cities_keyboard)
    /\ outcome = Send("answer", GREETING, get_cities_keyboard)
    /\ raised = "none"
    /\ editfail = FALSE

KbIdle == kb_city = <<>> /\ kb_groups = <<>> /\ kb_out = <<>> /\ kb_pc = "off"
FmIdle ==
    /\ fm_data = GroupNull
    /\ fm_key = "today"
    /\ fm_out = Ok(<<>>)
    /\ fm_pc = "off"

Init == MainInit /\ KbIdle /\ FmIdle

\* the end of a handler: apply what it sends to the chat
Finish(r) ==
    /\ pc' = "done"
    /\ IF r.exc # "none"
       THEN /\ raised' = r.exc
            /\ outcome' = NoOutcome
            /\ UNCHANGED <<displayed, editfail>>
       ELSE IF r.via = "answer"
       THEN /\ outcome' = r
            /\ UNCHANGED <<displayed, raised, editfail>>
       ELSE IF displayed = Content(r.text, r.kb)
       THEN \* edit_text: "message is not modified"
            /\ editfail' = TRUE
            /\ raised' = IF r.via = "edit_try" THEN "none" ELSE "TelegramBadRequest"
            /\ outcome' = NoOutcome
            /\ UNCHANGED displayed
       ELSE /\ displayed' = Content(r.text, r.kb)
            /\ outcome' = Send("edit", r.text, r.kb)
            /\ UNCHANGED <<raised, editfail>>

Dispatch ==
    /\ pc \in {"idle", "done"}
    /\ \E d \in InboundIds :
        /\ Route(d) \in Callbacks
        /\ cbdata' = d
        /\ handler' = Route(d)
    /\ pc' = "start"
    /\ city_key' = <<>>
    /\ group_id' = <<>>
    /\ acked' = FALSE
    /\ gets' = 0
    /\ resp' = "none"
    /\ data' = None
    /\ outcome' = NoOutcome
    /\ raised' = "none"
    /\ editfail' = FALSE
    /\ UNCHANGED <<displayed, kbvars, fmvars>>

cmd_start ==
    /\ pc \in {"idle", "done"}
    /\ handler' = "cmd_start"
    /\ pc' = "done"
    /\ cbdata' = <<>>
    /\ city_key' = <<>>
    /\ group_id' = <<>>
    /\ acked' = FALSE
    /\ gets' = 0
    /\ resp' = "none"
    /\ data' = None
    /\ raised' = "none"
    /\ editfail' = FALSE
    /\ displayed' = Content(GREETING, get_cities_keyboard)
    /\ outcome' = Send("answer", GREETING, get_cities_keyboard)
    /\ UNCHANGED <<kbvars, fmvars>>

cb_start ==
    /\ handler = "cb_start" /\ pc = "start"
    /\ Finish(Send("edit", ROOT_TEXT, get_cities_keyboard))
    /\ UNCHANGED <<handler, cbdata, city_key, group_id, acked, gets, resp, data,
                   kbvars, fmvars>>

\* cb_city_selected up to the fetch: split, acknowledge
cb_city_selected ==
    /\ handler = "cb_city_selected" /\ pc = "start"
    /\ city_key' = Split(cbdata, ":")[2]
    /\ acked' = TRUE
    /\ pc' = "fetch"
    /\ UNCHANGED <<handler, cbdata, group_id, gets, resp, data, displayed, outcome,
                   raised, editfail, kbvars, fmvars>>

\* cb_group_selected up to the fetch: unpack the split, acknowledge
cb_group_selected ==
    /\ handler = "cb_group_selected" /\ pc = "start"
    /\ LET fields == Split(cbdata, ":")
       IN  IF Len(fields) # 3
           THEN /\ Finish(Fail("ValueError"))
                /\ UNCHANGED <<city_key, group_id, acked>>
           ELSE /\ city_key' = fields[2]
                /\ group_id' = fields[3]
                /\ acked' = TRUE
                /\ pc' = "fetch"
                /\ UNCHANGED <<displayed, outcome, raised, editfail>>
    /\ UNCHANGED <<handler, cbdata, gets, resp, data, kbvars, fmvars>>

\* fetch_city_data: resolve the address, give up or issue the GET
fetch_city_data ==
    /\ pc = "fetch"
    /\ LET url == get_api_url(city_key)
       IN  IF url = NoUrl
           THEN /\ resp' = "no_url"
                /\ data' = None
                /\ pc' = "render"
                /\ UNCHANGED gets
           ELSE /\ gets' = gets + 1
                /\ pc' = "await"
                /\ UNCHANGED <<resp, data>>
    /\ UNCHANGED <<handler, cbdata, city_key, group_id, acked, displayed, outcome,
                   raised, editfail, kbvars, fmvars>>

\* the GET ends in a non-200 status, an exception or an undecodable body
fetch_failed ==
    /\ pc = "await"
    /\ \E f \in FetchFailures : resp' = f
    /\ data' = None
    /\ pc' = "render"
    /\ UNCHANGED <<handler, cbdata, city_key, group_id, acked, gets, displayed,
                   outcome, raised, editfail, kbvars, fmvars>>

\* the GET ends in status 200 and a decoded document
fetch_returned ==
    /\ pc = "await"
    /\ \E d \in Documents : data' = d
    /\ resp' = "ok"
    /\ pc' = "render"
    /\ UNCHANGED <<handler, cbdata, city_key, group_id, acked, gets, displayed,
                   outcome, raised, editfail, kbvars, fmvars>>

city_render ==
    /\ handler = "cb_city_selected" /\ pc = "render"
    /\ Finish(cb_city_render(city_key, data))
    /\ UNCHANGED <<handler, cbdata, city_key, group_id, acked, gets, resp, data,
                   kbvars, fmvars>>

group_render ==
    /\ handler = "cb_group_selected" /\ pc = "render"
    /\ Finish(cb_group_render(city_key, group_id, data))
    /\ UNCHANGED <<handler, cbdata, city_key, group_id, acked, gets, resp, data,
                   kbvars, fmvars>>

Next ==
    \/ Dispatch
    \/ cmd_start
    \/ cb_start
    \/ cb_city_selected
    \/ cb_group_selected
    \/ fetch_city_data
    \/ fetch_failed
    \/ fetch_returned
    \/ city_render
    \/ group_render

Spec == Init /\ [][Next]_vars

----------------------------------------------------------------------------
(* get_groups_keyboard on its own: every ordering of up to MaxGroups groups *)

G1 == <<"1">>
G2 == <<"2">>
G110 == <<"1", ".", "1", "0">>
GroupIdPool == {G1, G2, G11, G12, G21, G110, G1c1}

\* the lists of n distinct group identifiers (the keys of a document)
RECURSIVE GroupLists(_)
GroupLists(n) ==
    IF n = 0 THEN {<<>>}
    ELSE {Append(s, g) : <<s, g>> \in
            {p \in GroupLists(n - 1) \X GroupIdPool : p[2] \notin Range(p[1])}}

InitKb ==
    /\ MainInit /\ FmIdle
    /\ kb_city \in CityKeys
    /\ kb_groups \in UNION {GroupLists(n) : n \in 0..MaxGroups}
    /\ kb_out = <<>>
    /\ kb_pc = "ready"

groups_keyboard_call ==
    /\ kb_pc = "ready"
    /\ kb_out' = get_groups_keyboard(kb_city, kb_groups)
    /\ kb_pc' = "done"
    /\ UNCHANGED <<kb_city, kb_groups, mainvars, fmvars>>

NextKb == groups_keyboard_call

SpecKb == InitKb /\ [][NextKb]_vars

----------------------------------------------------------------------------
(* parse_schedule on its own: every well-formed day of up to MaxSlots slots *)

SlotPool ==
    {Slot(SlotFields, s, e, t) :
        s \in {5, 90}, e \in {1440, 6000}, t \in {"Definite", "NotPlanned", "Possible"}}

RECURSIVE SlotLists(_)
SlotLists(n) ==
    IF n = 0 THEN {<<>>}
    ELSE {Append(s, x) : <<s, x>> \in SlotLists(n - 1) \X SlotPool}

InitFm ==
    /\ MainInit /\ KbIdle
    /\ fm_data \in
        {Group("dict", h, STAMP, Day(dh, DATE, sl), Day(dh, DATE, <<>>)) :
            h \in SUBSET {"today", "tomorrow"},
            dh \in {DayFields, {"date"}, {"slots"}},
            sl \in UNION {SlotLists(n) : n \in 0..MaxSlots}}
    /\ fm_key \in {"today", "tomorrow"}
    /\ fm_out = Ok(<<>>)
    /\ fm_pc = "ready"

parse_schedule_call ==
    /\ fm_pc = "ready"
    /\ fm_out' = parse_schedule(fm_data, fm_key)
    /\ fm_pc' = "done"
    /\ UNCHANGED <<fm_data, fm_key, mainvars, kbvars>>

NextFm == parse_schedule_call

SpecFm == InitFm /\ [][NextFm]_vars

----------------------------------------------------------------------------
(* Properties *)

InFetch == pc \in {"fetch", "await", "render"}
FetchFailed == resp \in FetchFailures \cup {"no_url"}
RootKeyboard == get_cities_keyboard

\* C1: every button press (start, city:, group:) is acknowledged by its
\* handler, before the handler waits on the fetch, and no handler run ends
\* without having acknowledged its callback.
C1_Acknowledged ==
    handler \in Callbacks => /\ (InFetch => acked)
                             /\ (pc = "done" => acked)

\* C2: in cb_city_selected, a fetch that succeeds with an empty mapping ends
\* in the "no groups for this city" message with the cities keyboard, not in
\* the fetch-error message.
C2_NoGroupsMessage ==
    ( /\ handler = "cb_city_selected" /\ pc = "done"
      /\ resp = "ok" /\ data.kind = "dict" /\ data.keys = <<>> )
    => /\ displayed = Content(NoGroupsText(Config(city_key).name), RootKeyboard)
       /\ displayed.text # FETCH_ERROR

\* the inbound identifier does not name a city of the table, or does not have
\* the fields its prefix calls for
Malformed(d) ==
    LET fields == Split(d, ":")
    IN  \/ Len(fields) < 2
        \/ fields[2] \notin CityKeys
        \/ fields[1] = <<"city">> /\ Len(fields) # 2
        \/ fields[1] = <<"group">> /\ Len(fields) # 3

\* C3: for every inbound identifier starting with city: or group:, malformed
\* ones included, the handler completes without an exception leaving it.
C3_MalformedIgnored ==
    ( /\ handler \in {"cb_city_selected", "cb_group_selected"} /\ pc = "done"
      /\ Malformed(cbdata) )
    => raised = "none"

\* a slot of the day lacks one of start, end, type
BadDay(day) == \E i \in 1..Len(day.slots) : day.slots[i].has # SlotFields
BadGroup(g) ==
    \/ g.kind # "dict"
    \/ "today" \in g.has /\ BadDay(g.today)
    \/ "tomorrow" \in g.has /\ BadDay(g.tomorrow)

UnknownCity == resp = "no_url"
NetworkFailure == resp = "exception"
UpstreamError == resp = "status"
MalformedResponse ==
    \/ resp = "badjson"
    \/ /\ resp = "ok"
       /\ \/ data.kind # "dict"
          \/ \E i \in 1..Len(data.vals) : BadGroup(data.vals[i])
UnknownGroup ==
    /\ handler = "cb_group_selected"
    /\ resp = "ok" /\ data.kind = "dict" /\ group_id \notin Range(data.keys)

\* C4: for each of the five error kinds, in cb_city_selected and in
\* cb_group_selected, the handler ends by showing a generic message with a
\* keyboard to retry or go back, and no exception leaves the handler.
C4_ErrorsShownWithKeyboard ==
    ( /\ handler \in {"cb_city_selected", "cb_group_selected"} /\ pc = "done"
      /\ \/ UnknownCity \/ NetworkFailure \/ UpstreamError
         \/ MalformedResponse \/ UnknownGroup )
    => /\ raised = "none"
       /\ outcome.text \in {FETCH_ERROR, GROUP_ERROR}
       /\ outcome.kb # <<>>

\* C5: in every transition that edits the displayed message, an edit that
\* fails because the content is unchanged is swallowed: the handler completes
\* and the failure does not leave it.
C5_UnchangedEditSwallowed ==
    (pc = "done" /\ editfail) => raised = "none"

\* C6: in cb_city_selected, whenever the fetch fails, the handler shows the
\* fetch-error message with the cities keyboard, no group buttons, and raises
\* nothing past the handler.
C6_CityFetchFailure ==
    (handler = "cb_city_selected" /\ pc = "done" /\ FetchFailed)
    => /\ displayed = Content(FETCH_ERROR, RootKeyboard)
       /\ raised = "none"

\* the fetch failed, or the document is a mapping (or null) without the group
GroupUnavailable ==
    \/ FetchFailed
    \/ resp = "ok" /\ data.kind \in {"dict", "null"} /\ group_id \notin Range(data.keys)

C8_FetchOnce ==
    /\ pc = "await" => gets = 1 /\ city_key \in CityKeys
    /\ (pc \in {"render", "done"} /\ resp # "none")
       => /\ gets = (IF city_key \in CityKeys THEN 1 ELSE 0)
          /\ (city_key \notin CityKeys => resp = "no_url")
          /\ (FetchFailed => data = None)
    /\ pc = "render" => raised = "none"

C8_Witness ==
    /\ pc = "render" /\ city_key \notin CityKeys
    /\ gets = 0 /\ resp = "no_url" /\ data = None

\* the buttons of the rows 1..n of a keyboard, row by row
RECURSIVE Flatten(_, _)
Flatten(rows, n) == IF n = 0 THEN <<>> ELSE Flatten(rows, n - 1) \o rows[n]

GroupCallback(k, g) == <<"group", ":">> \o k \o <<":">> \o g

\* C9: for a non-empty list of distinct groups, get_groups_keyboard gives one
\* button per group, ascending lexicographically row by row, RowSize buttons
\* in every row but the last group row (1..RowSize), each carrying
\* group:<city>:<group>, then one final row with the single back button
\* carrying "start".
C9_GroupsKeyboard ==
    (kb_pc = "done" /\ kb_groups # <<>>)
    => LET n == Len(kb_groups)
           nr == Len(kb_out)
           flat == Flatten(kb_out, nr - 1)
       IN  /\ nr = ((n + RowSize - 1) \div RowSize) + 1
           /\ \A r \in 1..(nr - 2) : Len(kb_out[r]) = RowSize
           /\ Len(kb_out[nr - 1]) \in 1..RowSize
           /\ Len(flat) = n
           /\ {flat[i].callback_data : i \in 1..n}
                = {GroupCallback(kb_city, g) : g \in Range(kb_groups)}
           /\ \A i \in 1..n : \E g \in Range(kb_groups) :
                /\ flat[i].callback_data = GroupCallback(kb_city, g)
                /\ \A j \in (i + 1)..n : \E g2 \in Range(kb_groups) :
                     /\ flat[j].callback_data = GroupCallback(kb_city, g2)
                     /\ StrLess(g, g2)
           /\ Len(kb_out[nr]) = 1
           /\ kb_out[nr][1].callback_data = <<"start">>
           /\ kb_out[nr][1] = BACK_TO_CITIES

C9_Witness ==
    /\ kb_pc = "done"
    /\ Len(kb_groups) = 5
    /\ kb_groups[1] = G12 /\ kb_groups[2] = G110 /\ kb_groups[3] = G11
    /\ Len(kb_out) = 3 /\ Len(kb_out[2]) = 2

DigitVal(c) == CHOOSE i \in 0..9 : Digit[i + 1] = c

RECURSIVE NumVal(_)
NumVal(ds) ==
    IF ds = <<>> THEN 0
    ELSE NumVal(SubSeq(ds, 1, Len(ds) - 1)) * 10 + DigitVal(ds[Len(ds)])

\* ds is the decimal n, zero-padded to two digits and no further
IsPadded(ds, n) ==
    /\ Len(ds) >= 2
    /\ \A i \in 1..Len(ds) : ds[i] \in Range(Digit)
    /\ NumVal(ds) = n
    /\ Len(ds) > 2 => ds[1] # "0"

ShowsTime(t, minutes) ==
    LET f == Split(t, ":")
    IN  /\ Len(f) = 2
        /\ IsPadded(f[1], minutes \div 60)
        /\ IsPadded(f[2], minutes % 60)
        /\ Len(f[2]) = 2

ShowsSlot(line, slot) ==
    LET w == Split(line, " ")
    IN  /\ Len(w) = 6
        /\ ShowsTime(w[2], slot.start)
        /\ w[3] = <<"-">>
        /\ ShowsTime(w[4], slot.end)
        /\ w[5] = <<":">>
        /\ <<w[1], w[6]>> =
             (CASE slot.type = "Definite"   -> << <<ICON_RED>>, <<TEXT_OUTAGE>> >>
                [] slot.type = "NotPlanned" -> << <<ICON_GREEN>>, <<TEXT_POWER>> >>
                [] OTHER                    -> << <<ICON_WHITE>>, <<slot.type>> >>)

FmDay == IF fm_key = "today" THEN fm_data.today ELSE fm_data.tomorrow
FmSlots == IF "slots" \in FmDay.has THEN FmDay.slots ELSE <<>>

\* C10: parse_schedule returns exactly the "no data" line when the day key is
\* absent, exactly the "empty schedule" line when the slot list is empty, and
\* otherwise a date header line followed by one line per slot in slot order,
\* times as hours = minutes div 60 and minutes = minutes mod 60, zero-padded
\* to two digits and not wrapped at 1440, the status by the three-way mapping.
C10_ParseSchedule ==
    fm_pc = "done"
    => /\ fm_out.exc = "none"
       /\ IF fm_key \notin fm_data.has THEN fm_out.val = NO_DATA
          ELSE IF FmSlots = <<>> THEN fm_out.val = EMPTY_SCHEDULE
          ELSE LET lines == Split(fm_out.val, "\n")
               IN  /\ Len(lines) = Len(FmSlots) + 1
                   /\ lines[1][1] = "(cal) <b>Data: "
                   /\ \A i \in 1..Len(FmSlots) : ShowsSlot(lines[i + 1], FmSlots[i])

C10_Witness ==
    /\ fm_pc = "done"
    /\ fm_key \in fm_data.has
    /\ Len(FmSlots) = 2
    /\ FmSlots[1].end = 1440 /\ FmSlots[1].type = "Definite"
    /\ FmSlots[2].type = "Possible"
    /\ Len(Split(fm_out.val, "\n")) = 3

====
